---- MODULE Spec2Model ----
(***************************************************************************)
(* The Svelte extension for Zed: session-scoped package provisioning       *)
(* (src/svelte.rs, SvelteExtension) and the runtime selector               *)
(* (src/runtime.rs, Runtime).                                              *)
(*                                                                         *)
(* Spec        : the extension as the host drives it through its entry     *)
(*               points (zed::Extension for SvelteExtension).              *)
(* SpecRuntime : Runtime::new and Runtime::server_command applied to       *)
(*               inputs drawn from bounded sets.                           *)
(***************************************************************************)
EXTENDS Naturals, Sequences, FiniteSets

VARIABLES
    installed,      \* SvelteExtension.installed : HashSet<String>
    node_modules,   \* host: what npm_package_installed_version reports per package
    log,            \* the install_package_if_needed calls the latest entry-point call made
    session,        \* per package: what its calls added up to since SvelteExtension::new
    response,       \* what the most recent entry point returned to the host
    requests,       \* number of entry-point calls the host has made so far
    runtime,        \* a Runtime value built by Runtime::new, "unset" before that
    path_env,       \* host: what which("bun") finds on PATH
    which_calls,    \* number of which("bun") probes made so far
    server_request, \* the latest Runtime::server_command call: its receiver and inputs
    node_asked      \* whether the latest call asked zed::node_binary_path(), and the answer

vars == <<installed, node_modules, log, session, response, requests, runtime, path_env, which_calls, server_request, node_asked>>

-----------------------------------------------------------------------------
(* Bounds *)

\* entry-point calls the host makes in one process lifetime
MaxRequests == 2

\* Runtime::new calls in SpecRuntime
MaxProbes == 2

-----------------------------------------------------------------------------
(* Values *)

None == "None"
Err == "Err"
Ok == "Ok"

PACKAGE_NAME == "svelte-language-server"
TS_PLUGIN_PACKAGE_NAME == "typescript-svelte-plugin"
MCP_SERVER_PACKAGE_NAME == "@sveltejs/mcp"

Packages == {PACKAGE_NAME, TS_PLUGIN_PACKAGE_NAME, MCP_SERVER_PACKAGE_NAME}

\* published version strings the registry may answer with
Versions == {"1.0.0", "1.1.0"}

\* what an earlier process lifetime may have left in node_modules
VersionsAtStartup == {"1.0.0"}

\* the LanguageServerId the host passes to language_server_command
LanguageServerIds == {"svelte-language-server"}

\* target ids of language_server_additional_workspace_configuration
TargetIds == {"vtsls", "typescript-language-server"}

(***************************************************************************)
(* Paths and strings.  A PathBuf is a sequence of units; a unit is either  *)
(* a piece of valid UTF-8 text or InvalidByte, a byte that is not valid    *)
(* UTF-8.  A String is a sequence of text units only.                      *)
(***************************************************************************)
InvalidByte == "\\xFF"
ReplacementChar == "U+FFFD"

\* Path::to_string_lossy().to_string(): invalid bytes become U+FFFD
ToStringLossy(path) ==
    [i \in 1..Len(path) |-> IF path[i] = InvalidByte THEN ReplacementChar ELSE path[i]]

\* Path::join, for a relative component
Join(path, component) == path \o <<"/", component>>

\* env::current_dir().unwrap()
CurrentDir == <<"/extensions/work/svelte">>

\* the empty path stands for "no path": which() found nothing, the host gave an error
NoPath == <<>>

\* what which("bun") can answer: Err(_) (NoPath) or Ok(path)
BunPaths == { <<"/usr/local/bin/bun">>,
              <<"/home/", InvalidByte, "/.bun/bin/bun">> }
PathEnvs == {NoPath} \cup BunPaths

\* SvelteExtension never looks at PATH, so the extension is run with one PATH: bun is on it
BunOnPath == <<"/usr/local/bin/bun">>

\* what zed::node_binary_path() can answer: Err (NoPath) or Ok(string)
NodePaths == { <<"/zed/node/bin/node">>, <<"/zed/node-v2/bin/node">> }
NodeAnswers == {NoPath} \cup NodePaths

-----------------------------------------------------------------------------
(* Host calls, as they are recorded in a call's trace *)

HostCall(op, package_name, arg) == [op |-> op, pkg |-> package_name, arg |-> arg]

InstalledVersionQuery(package_name) ==
    HostCall("npm_package_installed_version", package_name, None)

LatestVersionQuery(package_name) ==
    HostCall("npm_package_latest_version", package_name, None)

InstallCall(package_name, version) ==
    HostCall("npm_install_package", package_name, version)

\* if let Some(id) = id { zed::set_language_server_installation_status(id, status) }
StatusCallUnconditional(id, status) ==
    <<HostCall("set_language_server_installation_status", id, status)>>

StatusCall(id, status) ==
    IF id # None
    THEN <<HostCall("set_language_server_installation_status", id, status)>>
    ELSE <<>>

(***************************************************************************)
(* What the host answers during one install_package_if_needed call:        *)
(*   installed_ok : npm_package_installed_version succeeds                 *)
(*   latest       : npm_package_latest_version answers a version or Err    *)
(*   install_ok   : npm_install_package succeeds                           *)
(* An answer the call never asks for is fixed (Err, FALSE), so that each     *)
(* course of a call is listed once.                                        *)
(***************************************************************************)
HostAnswers ==
    { h \in [installed_ok : BOOLEAN, latest : Versions \cup {Err}, install_ok : BOOLEAN] :
        /\ ~h.installed_ok => h.latest = Err
        /\ h.latest = Err => ~h.install_ok }

-----------------------------------------------------------------------------
(* SvelteExtension::install_package_if_needed, condition by condition *)

\* installed_version.is_some() && self.installed.contains(package_name)
FastPathWithoutSet(installed_version, self_installed, package_name) ==
    installed_version # None

FastPathNotContains(installed_version, self_installed, package_name) ==
    installed_version # None /\ package_name \notin self_installed

FastPath(installed_version, self_installed, package_name) ==
    installed_version # None /\ package_name \in self_installed

\* installed_version.as_ref() != Some(&latest_version)
NeedsInstallOnlyWhenAbsent(installed_version, latest_version) ==
    installed_version = None

NeedsInstall(installed_version, latest_version) ==
    installed_version # latest_version

\* if installed_version.is_none() { Err(error)?; }  -- otherwise the error is dropped
PropagateAlways(installed_version) == TRUE

PropagateNever(installed_version) == FALSE

PropagateInstallError(installed_version) ==
    installed_version = None

\* the ? after a version query: an Err answer is returned to the caller at once
QueryFailedIgnored(answer) == FALSE

QueryFailed(answer) == answer = Err

\* self.installed.insert(package_name.into())
InsertReplaces(self_installed, package_name) == {package_name}

InsertForgotten(self_installed, package_name) == self_installed

InsertInstalled(self_installed, package_name) ==
    self_installed \cup {package_name}

\* status CheckingForUpdate, then npm_package_latest_version
CheckCallsWithoutStatus(id, package_name) ==
    <<LatestVersionQuery(package_name)>>

CheckCalls(id, package_name) ==
    StatusCall(id, "CheckingForUpdate") \o <<LatestVersionQuery(package_name)>>

\* status Downloading, then npm_install_package(package_name, &latest_version)
DownloadCallsStatusLast(id, package_name, latest_version) ==
    <<InstallCall(package_name, latest_version)>> \o StatusCall(id, "Downloading")

DownloadCalls(id, package_name, latest_version) ==
    StatusCall(id, "Downloading") \o <<InstallCall(package_name, latest_version)>>

\* the outcome of one call: what it saw, what it did, what it left behind
CallRecord(id, package_name, before, installed_version, latest_version, install, calls, result, after, modules) ==
    [ id                |-> id,
      pkg               |-> package_name,
      before            |-> before,
      installed_version |-> installed_version,
      latest_version    |-> latest_version,
      install           |-> install,
      calls             |-> calls,
      result            |-> result,
      after             |-> after,
      node_modules      |-> modules ]

\* latest_version of a call that never asked for it
NotQueried == "NotQueried"

\* install outcome of a call that never tried to install
NotAttempted == "NotAttempted"

InstallPackageIfNeeded(self_installed, modules, id, package_name, host) ==
    LET installed_version ==
            IF host.installed_ok THEN modules[package_name] ELSE Err
        q0 == <<InstalledVersionQuery(package_name)>>
        Ret(latest_version, install, calls, result, after, mods) ==
            CallRecord(id, package_name, self_installed, installed_version,
                       latest_version, install, calls, result, after, mods)
    IN
    IF QueryFailed(installed_version)
    THEN Ret(NotQueried, NotAttempted, q0, "QueryError", self_installed, modules)
    ELSE IF FastPath(installed_version, self_installed, package_name)
    THEN Ret(NotQueried, NotAttempted, q0, Ok, self_installed, modules)
    ELSE
    LET q1 == q0 \o CheckCalls(id, package_name)
        latest_version == host.latest
    IN
    IF QueryFailed(latest_version)
    THEN Ret(Err, NotAttempted, q1, "QueryError", self_installed, modules)
    ELSE IF NeedsInstall(installed_version, latest_version)
    THEN LET q2 == q1 \o DownloadCalls(id, package_name, latest_version) IN
         IF ~host.install_ok
         THEN IF PropagateInstallError(installed_version)
              THEN Ret(latest_version, Err, q2, "InstallError", self_installed, modules)
              ELSE Ret(latest_version, Err, q2, Ok,
                       InsertInstalled(self_installed, package_name), modules)
         ELSE Ret(latest_version, Ok, q2, Ok,
                  InsertInstalled(self_installed, package_name),
                  [modules EXCEPT ![package_name] = latest_version])
    ELSE Ret(latest_version, NotAttempted, q1, Ok,
             InsertInstalled(self_installed, package_name), modules)

-----------------------------------------------------------------------------
(* The calls of one process lifetime, added up per package *)

IssuedLatestQuery(c) == \E i \in 1..Len(c.calls) : c.calls[i].op = "npm_package_latest_version"

IssuedInstall(c) == \E i \in 1..Len(c.calls) : c.calls[i].op = "npm_install_package"

\* the summary of a package no call has been made for
NoCalls ==
    [ calls          |-> 0,        \* install_package_if_needed calls
      latest_queries |-> 0,        \* npm_package_latest_version calls
      installs       |-> 0,        \* npm_install_package calls
      current        |-> TRUE,     \* every call found the installed version to be the latest
      steady_queries |-> 0,        \* latest queries since an installed version was last missing
      steady_ok      |-> FALSE,    \* ... one of which was answered
      steady_requery |-> 0,        \* ... those issued after one was answered
      swallowed      |-> FALSE,    \* an install failure was dropped, the stale version kept
      stale_calls    |-> 0,        \* calls since then that found an installed version
      stale_fast     |-> 0 ]       \* ... those that returned Ok after that query alone

Account(s, c) ==
    LET asked    == IssuedLatestQuery(c)
        reported == c.installed_version \in Versions
        stale    == s.swallowed /\ reported
        fast     == c.calls = <<InstalledVersionQuery(c.pkg)>> /\ c.result = Ok
    IN
    [ calls          |-> s.calls + 1,
      latest_queries |-> s.latest_queries + (IF asked THEN 1 ELSE 0),
      installs       |-> s.installs + (IF IssuedInstall(c) THEN 1 ELSE 0),
      current        |-> /\ s.current
                         /\ reported
                         /\ c.latest_version \in {NotQueried, c.installed_version},
      steady_queries |-> IF ~reported THEN 0
                         ELSE s.steady_queries + (IF asked THEN 1 ELSE 0),
      steady_ok      |-> IF ~reported THEN FALSE
                         ELSE s.steady_ok \/ c.latest_version \in Versions,
      steady_requery |-> IF ~reported THEN 0
                         ELSE s.steady_requery + (IF asked /\ s.steady_ok THEN 1 ELSE 0),
      swallowed      |-> s.swallowed \/ (c.install = Err /\ c.result = Ok),
      stale_calls    |-> s.stale_calls + (IF stale THEN 1 ELSE 0),
      stale_fast     |-> s.stale_fast + (IF stale /\ fast THEN 1 ELSE 0) ]

\* the summaries after the calls cs, made in that order
RECURSIVE AccountAll(_, _)
AccountAll(ss, cs) ==
    IF cs = <<>> THEN ss
    ELSE AccountAll([ss EXCEPT ![Head(cs).pkg] = Account(ss[Head(cs).pkg], Head(cs))],
                    Tail(cs))

-----------------------------------------------------------------------------
(* What an entry point returns to the host *)

\* Ok(zed::Command { command, args, env: Default::default() })
CommandResponse(command, args) ==
    [kind |-> "command", command |-> command, args |-> args, env |-> {}, error |-> None]

\* Err(error)
ErrorResponse(error) ==
    [kind |-> "error", command |-> <<>>, args |-> <<>>, env |-> {}, error |-> error]

\* Ok(Some(json)) / Ok(None) of the two configuration entry points
ValueResponse(value) ==
    [kind |-> value, command |-> <<>>, args |-> <<>>, env |-> {}, error |-> None]

NoResponse == ValueResponse("none")

\* current_dir/node_modules/<package>/<entry>, as a string
EntryScript(package_name, entry) ==
    ToStringLossy(Join(Join(Join(CurrentDir, "node_modules"), package_name), entry))

\* args of language_server_command
LanguageServerArgs == <<EntryScript(PACKAGE_NAME, "bin/server.js"), <<"--stdio">>>>

\* args of context_server_command
ContextServerArgs == <<EntryScript(MCP_SERVER_PACKAGE_NAME, "dist/index.js")>>

\* zed::node_binary_path() was not called / was called and answered node
NotAsked == [asked |-> FALSE, answer |-> NoPath]
Asked(node) == [asked |-> TRUE, answer |-> node]

\* command: zed::node_binary_path()?
NodeCommandCached(node, args) ==
    IF response.kind = "command"
    THEN CommandResponse(response.command, args)
    ELSE IF node = NoPath
    THEN ErrorResponse("HostResolutionError")
    ELSE CommandResponse(node, args)

NodeCommand(node, args) ==
    IF node = NoPath
    THEN ErrorResponse("HostResolutionError")
    ELSE CommandResponse(node, args)

-----------------------------------------------------------------------------
(* Runtime (src/runtime.rs) *)

Unset == [tag |-> "unset", path |-> NoPath]
Bun(path) == [tag |-> "Bun", path |-> path]
Node == [tag |-> "Node", path |-> NoPath]

\* Runtime::new: match which("bun") { Ok(path) => Self::Bun(path), Err(_) => Self::Node }
RuntimeOf(which_bun) ==
    IF which_bun # NoPath THEN Bun(which_bun) ELSE Node

\* args: vec![server_path.to_string(), "--stdio".to_string()]
ServerCommandArgsWithoutStdio(server_path) == <<server_path>>

ServerCommandArgs(server_path) == <<server_path, <<"--stdio">>>>

\* Runtime::server_command; node is what zed::node_binary_path() answers when asked
ServerCommand(self, server_path, node) ==
    IF self.tag = "Bun"
    THEN CommandResponse(ToStringLossy(self.path), ServerCommandArgs(server_path))
    ELSE IF node = NoPath
    THEN ErrorResponse("HostResolutionError")
    ELSE CommandResponse(node, ServerCommandArgs(server_path))

\* entry scripts a command is built for
ServerPaths ==
    { EntryScript(PACKAGE_NAME, "bin/server.js"),
      EntryScript(MCP_SERVER_PACKAGE_NAME, "dist/index.js") }

NoServerRequest == [self |-> Unset, server_path |-> <<>>, node |-> NoPath]

-----------------------------------------------------------------------------
(* The extension *)

\* SvelteExtension::new
NewInstalled == {}

Init ==
    /\ installed = NewInstalled
    /\ node_modules \in [Packages -> VersionsAtStartup \cup {None}]
    /\ log = <<>>
    /\ session = [p \in Packages |-> NoCalls]
    /\ response = NoResponse
    /\ requests = 0
    /\ runtime = Unset
    /\ path_env = BunOnPath
    /\ which_calls = 0
    /\ server_request = NoServerRequest
    /\ node_asked = NotAsked

\* what a launch request leaves behind: the state after its calls cs, and its result
Served(cs, result, asked) ==
    /\ installed' = cs[Len(cs)].after
    /\ node_modules' = cs[Len(cs)].node_modules
    /\ log' = cs
    /\ session' = AccountAll(session, cs)
    /\ response' = result
    /\ node_asked' = asked
    /\ requests' = requests + 1
    /\ UNCHANGED <<runtime, path_env, which_calls, server_request>>

LanguageServerCommand ==
    /\ requests < MaxRequests
    /\ \E id \in LanguageServerIds, h1 \in HostAnswers :
          LET c1 == InstallPackageIfNeeded(installed, node_modules, id, PACKAGE_NAME, h1)
          IN
          IF c1.result # Ok
          THEN Served(<<c1>>, ErrorResponse(c1.result), NotAsked)
          ELSE \E h2 \in HostAnswers :
                  LET c2 == InstallPackageIfNeeded(c1.after, c1.node_modules, id,
                                                   TS_PLUGIN_PACKAGE_NAME, h2)
                  IN
                  IF c2.result # Ok
                  THEN Served(<<c1, c2>>, ErrorResponse(c2.result), NotAsked)
                  ELSE \E node \in NodeAnswers :
                          Served(<<c1, c2>>, NodeCommand(node, LanguageServerArgs), Asked(node))

ContextServerCommand ==
    /\ requests < MaxRequests
    /\ \E h \in HostAnswers :
          LET c == InstallPackageIfNeeded(installed, node_modules, None,
                                          MCP_SERVER_PACKAGE_NAME, h)
          IN
          IF c.result # Ok
          THEN Served(<<c>>, ErrorResponse(c.result), NotAsked)
          ELSE \E node \in NodeAnswers :
                  Served(<<c>>, NodeCommand(node, ContextServerArgs), Asked(node))

LanguageServerInitializationOptions ==
    /\ requests < MaxRequests
    /\ response' = ValueResponse("initialization_options")
    /\ log' = <<>>
    /\ node_asked' = NotAsked
    /\ requests' = requests + 1
    /\ UNCHANGED <<installed, node_modules, session, runtime, path_env, which_calls, server_request>>

LanguageServerAdditionalWorkspaceConfiguration ==
    /\ requests < MaxRequests
    /\ requests' = requests + 1
    /\ \E target_id \in TargetIds :
          response' = IF target_id = "vtsls"
                      THEN ValueResponse("vtsls_configuration")
                      ELSE ValueResponse("no_configuration")
    /\ log' = <<>>
    /\ node_asked' = NotAsked
    /\ UNCHANGED <<installed, node_modules, session, runtime, path_env, which_calls, server_request>>

\* the host side: a package is removed from node_modules behind the extension's back
\* (while a later entry-point call can still observe it)
ExternalRemoval ==
    /\ requests < MaxRequests
    /\ \E p \in Packages :
          /\ node_modules[p] # None
          /\ node_modules' = [node_modules EXCEPT ![p] = None]
    /\ UNCHANGED <<installed, log, session, response, requests, runtime, path_env, which_calls, server_request, node_asked>>

Next ==
    \/ LanguageServerCommand
    \/ ContextServerCommand
    \/ LanguageServerInitializationOptions
    \/ LanguageServerAdditionalWorkspaceConfiguration
    \/ ExternalRemoval

Spec == Init /\ [][Next]_vars

-----------------------------------------------------------------------------
(* The runtime selector on its own: Runtime::new and Runtime::server_command *)

InitRuntime ==
    /\ installed = NewInstalled
    /\ node_modules = [p \in Packages |-> None]
    /\ log = <<>>
    /\ session = [p \in Packages |-> NoCalls]
    /\ response = NoResponse
    /\ requests = 0
    /\ runtime = Unset
    /\ path_env \in PathEnvs
    /\ which_calls = 0
    /\ server_request = NoServerRequest
    /\ node_asked = NotAsked

RuntimeNew ==
    /\ which_calls < MaxProbes
    /\ runtime' = RuntimeOf(path_env)
    /\ which_calls' = which_calls + 1
    /\ UNCHANGED <<installed, node_modules, log, session, response, requests,
                   path_env, server_request, node_asked>>

RuntimeServerCommand ==
    /\ runtime # Unset
    /\ \E server_path \in ServerPaths, node \in NodeAnswers :
          LET asked == IF runtime.tag = "Node" THEN node ELSE NoPath IN
          /\ response' = ServerCommand(runtime, server_path, asked)
          /\ server_request' = [self |-> runtime, server_path |-> server_path,
                                node |-> asked]
          /\ node_asked' = IF runtime.tag = "Node" THEN Asked(node) ELSE NotAsked
    /\ UNCHANGED <<installed, node_modules, log, session, requests, runtime,
                   path_env, which_calls>>

\* the host side: bun appears on PATH, moves, or disappears from it
PathChange ==
    /\ \E path \in PathEnvs :
          /\ path # path_env
          /\ path_env' = path
    /\ UNCHANGED <<installed, node_modules, log, session, response, requests,
                   runtime, which_calls, server_request, node_asked>>

NextRuntime ==
    \/ RuntimeNew
    \/ RuntimeServerCommand
    \/ PathChange

SpecRuntime == InitRuntime /\ [][NextRuntime]_vars

-----------------------------------------------------------------------------
(* Reading a call record *)

Calls == {log[i] : i \in 1..Len(log)}

OpCount(c, op) == Cardinality({i \in 1..Len(c.calls) : c.calls[i].op = op})

StatusAt(c, status) ==
    {i \in 1..Len(c.calls) :
        /\ c.calls[i].op = "set_language_server_installation_status"
        /\ c.calls[i].arg = status}

NoStatus(c) == OpCount(c, "set_language_server_installation_status") = 0

\* the call found an installed version and its package already in the set
OnFastPath(c) == c.installed_version \in Versions /\ c.pkg \in c.before

\* both version queries were answered and the versions differ
UpdateNeeded(c) ==
    /\ c.installed_version \in Versions \cup {None}
    /\ c.latest_version \in Versions
    /\ c.installed_version # c.latest_version

\* the call is the first one made for its package since SvelteExtension::new
FirstCall(c) == session[c.pkg].calls = 1

-----------------------------------------------------------------------------
(* Properties of install_package_if_needed *)

\* C1: a call that finds an installed version for a package already in the set
\* returns Ok having issued the installed-version query and nothing else (no
\* latest-version query, no install, no status); so a latest-version query is
\* only issued for a package outside the set or without an installed version.
C1_FastPath ==
    \A c \in Calls :
        /\ OnFastPath(c) =>
              /\ c.result = Ok
              /\ c.calls = <<InstalledVersionQuery(c.pkg)>>
        /\ IssuedLatestQuery(c) => (c.pkg \notin c.before \/ c.installed_version = None)

C1_Witness ==
    \E c \in Calls : OnFastPath(c) /\ c.result = Ok

\* C2: an install failure while an installed version exists is swallowed: the
\* call returns Ok and its package is in the set afterwards.
C2_GracefulDegradation ==
    \A c \in Calls :
        (c.installed_version \in Versions /\ UpdateNeeded(c) /\ c.install = Err) =>
            /\ c.result = Ok
            /\ c.pkg \in c.after
            /\ (c = log[Len(log)] => c.pkg \in installed)

C2_Witness ==
    \E c \in Calls :
        /\ c.installed_version \in Versions /\ UpdateNeeded(c) /\ c.install = Err
        /\ c.pkg \notin c.before /\ c.pkg \in installed

\* C3: an install failure with no installed version is returned as the error and
\* leaves the set as it was before the call.
C3_HardFailure ==
    \A c \in Calls :
        (c.installed_version = None /\ c.install = Err) =>
            /\ c.result = "InstallError"
            /\ c.after = c.before
            /\ c = log[Len(log)]
            /\ installed = c.before
            /\ response = ErrorResponse("InstallError")

C3_Witness ==
    \E c \in Calls :
        c.installed_version = None /\ c.install = Err /\ c.pkg \notin installed

\* C4 as stated: two calls from a fresh instance for a package whose installed
\* version is the latest make one version/install host call in total.
C4_OneHostCallInTotal ==
    \A p \in Packages :
        (session[p].calls = 2 /\ session[p].current) =>
            session[p].calls + session[p].latest_queries + session[p].installs = 1

\* C4 amended: two such calls issue one latest-version query and no install in
\* total; each issues its own installed-version query, and the second issues
\* nothing else.
C4_OneRegistryCallInTotal ==
    \A p \in Packages :
        (session[p].calls = 2 /\ session[p].current) =>
            /\ session[p].latest_queries = 1
            /\ session[p].installs = 0
            /\ \A c \in Calls :
                  c.pkg = p => /\ c.calls = <<InstalledVersionQuery(p)>>
                               /\ c.result = Ok
                               /\ c.after = c.before

C4_Witness ==
    \E c \in Calls :
        /\ session[c.pkg].calls = 2
        /\ session[c.pkg].current
        /\ c.installed_version \in Versions

\* C5: with an observer and an update needed, CheckingForUpdate is reported, then
\* Downloading, in that order; on the fast path neither is reported.
C5_StatusOrdering ==
    \A c \in Calls :
        /\ (c.id # None /\ UpdateNeeded(c)) =>
              /\ StatusAt(c, "CheckingForUpdate") # {}
              /\ StatusAt(c, "Downloading") # {}
              /\ \A i \in StatusAt(c, "CheckingForUpdate"), j \in StatusAt(c, "Downloading") :
                    i < j
        /\ OnFastPath(c) => NoStatus(c)

C5_Witness ==
    \E c \in Calls :
        c.id # None /\ UpdateNeeded(c) /\ StatusAt(c, "Downloading") # {}

\* C6: off the fast path, once the latest version is known, an install is
\* attempted exactly once, for that version, when the installed version is not
\* equal to it (an absent one counts as different), and not at all when it is.
C6_UpdateDetection ==
    \A c \in Calls :
        (~OnFastPath(c) /\ c.latest_version \in Versions) =>
            IF c.installed_version # c.latest_version
            THEN /\ OpCount(c, "npm_install_package") = 1
                 /\ \E i \in 1..Len(c.calls) :
                       c.calls[i] = InstallCall(c.pkg, c.latest_version)
            ELSE OpCount(c, "npm_install_package") = 0

C6_Witness ==
    \E c \in Calls :
        /\ c.installed_version = "1.0.0"
        /\ c.latest_version = "1.1.0"
        /\ OpCount(c, "npm_install_package") = 1

\* C7 as stated: the set starts empty and the first call for a package always
\* issues the latest-version query.
C7_FirstCallQueriesLatest ==
    /\ \A p \in Packages : session[p].calls = 0 => p \notin installed
    /\ \A c \in Calls : FirstCall(c) => IssuedLatestQuery(c)

\* C7 amended: the set starts empty and the first call for a package never takes
\* the fast path: whenever its installed-version query is answered, installed or
\* not, it issues the latest-version query.
C7_FirstCallFullCheck ==
    /\ \A p \in Packages : session[p].calls = 0 => p \notin installed
    /\ \A c \in Calls :
          FirstCall(c) =>
              /\ c.pkg \notin c.before
              /\ c.installed_version # Err => IssuedLatestQuery(c)

C7_Witness ==
    \E c \in Calls :
        FirstCall(c) /\ c.installed_version \in Versions /\ IssuedLatestQuery(c)

\* C10 as stated: while a package keeps reporting an installed version, the
\* latest-version query is issued for it at most once.
C10_AtMostOneLatestQuery ==
    \A p \in Packages : session[p].steady_queries <= 1

\* C10 amended: while a package keeps reporting an installed version, the
\* latest-version query is answered for it at most once: it is issued again only
\* after it failed, never after it was answered.
C10_NoQueryAfterAnswer ==
    \A p \in Packages : session[p].steady_requery = 0

C10_Witness ==
    \E c \in Calls :
        /\ session[c.pkg].steady_ok
        /\ session[c.pkg].calls >= 2
        /\ OnFastPath(c)

-----------------------------------------------------------------------------
(* Properties of the runtime selector *)

\* C8 as stated: a command built by Runtime::server_command has the arguments
\* [server_path, "--stdio"], an empty environment, and as executable the probed
\* path (Bun) or the host's node path (Node).
C8_ServerCommand ==
    response.kind = "command" =>
        /\ response.args = <<server_request.server_path, <<"--stdio">>>>
        /\ response.env = {}
        /\ server_request.self.tag = "Bun" => response.command = server_request.self.path
        /\ server_request.self.tag = "Node" => response.command = server_request.node

\* C8 amended: the same, with the executable of the Bun case being the probed
\* path rendered as a string, every byte that is not valid UTF-8 replaced by
\* U+FFFD (so the probed path itself whenever it is valid UTF-8).
C8_ServerCommandLossy ==
    response.kind = "command" =>
        /\ response.args = <<server_request.server_path, <<"--stdio">>>>
        /\ response.env = {}
        /\ server_request.self.tag = "Bun" =>
              LET path == server_request.self.path IN
              /\ Len(response.command) = Len(path)
              /\ \A i \in 1..Len(path) :
                    response.command[i] =
                        IF path[i] = InvalidByte THEN ReplacementChar ELSE path[i]
        /\ server_request.self.tag = "Node" => response.command = server_request.node

C8_Witness ==
    /\ response.kind = "command"
    /\ server_request.self.tag = "Bun"
    /\ \E i \in 1..Len(server_request.self.path) :
          server_request.self.path[i] = InvalidByte

\* C9: by the time a launch command is returned, PATH has been probed exactly
\* once, at construction, and the command runs the runtime chosen then.
C9_ProbedOnceAtStartup ==
    response.kind = "command" =>
        /\ which_calls = 1
        /\ runtime = RuntimeOf(path_env)
        /\ runtime.tag = "Bun" => response.command = ToStringLossy(runtime.path)

-----------------------------------------------------------------------------
(* Membership of the set *)

\* the call put its package into the set
Added(c) == c.pkg \in c.after /\ c.pkg \notin c.before

\* C11 as stated: a name is added only by a call that found the package installed
\* at the latest version or installed the latest version successfully.
C11_AddedOnlyWhenCurrent ==
    \A c \in Calls :
        Added(c) =>
            /\ c.latest_version \in Versions
            /\ (c.installed_version = c.latest_version \/ c.install = Ok)

\* C11 amended: a name is added only by a call that learned the latest version
\* and then found the package installed at it, or installed it successfully, or
\* failed to install it while some other version was installed (the stale
\* version is kept and the name is added all the same).
C11_AddedWhenCurrentOrStale ==
    \A c \in Calls :
        Added(c) =>
            /\ c.result = Ok
            /\ c.latest_version \in Versions
            /\ \/ c.installed_version = c.latest_version
               \/ c.install = Ok
               \/ (c.install = Err /\ c.installed_version \in Versions)

C11_Witness ==
    \E c \in Calls :
        /\ Added(c)
        /\ c.install = Err
        /\ c.installed_version \in Versions
        /\ c.installed_version # c.latest_version

\* C12: when the installed-version query or the latest-version query fails, the
\* call returns that error, attempts no install and leaves the set as it was;
\* the entry point returns the error.
C12_QueryFailure ==
    \A c \in Calls :
        (c.installed_version = Err \/ c.latest_version = Err) =>
            /\ c.result = "QueryError"
            /\ OpCount(c, "npm_install_package") = 0
            /\ c.after = c.before
            /\ c = log[Len(log)]
            /\ installed = c.before
            /\ response = ErrorResponse("QueryError")
            /\ c.installed_version = Err => c.calls = <<InstalledVersionQuery(c.pkg)>>

C12_Witness ==
    \E c \in Calls :
        /\ c.installed_version \in Versions
        /\ c.latest_version = Err
        /\ c.pkg \notin installed

-----------------------------------------------------------------------------
(* The same call with and without a status observer *)

\* what the host answered during a call, read back from its record
AnswersOf(c) ==
    [ installed_ok |-> c.installed_version # Err,
      latest       |-> IF c.latest_version = NotQueried THEN Err ELSE c.latest_version,
      install_ok   |-> c.install = Ok ]

\* node_modules as the call found it
ModulesBefore(c) ==
    IF c.installed_version = Err
    THEN c.node_modules
    ELSE [c.node_modules EXCEPT ![c.pkg] = c.installed_version]

\* the call made again from the same state with the same answers, with observer id
Replay(c, id) ==
    InstallPackageIfNeeded(c.before, ModulesBefore(c), id, c.pkg, AnswersOf(c))

IsStatus(call) == call.op = "set_language_server_installation_status"

WithoutStatus(calls) == SelectSeq(calls, LAMBDA call : ~IsStatus(call))

\* what a call did apart from reporting status
Course(c) ==
    [ calls        |-> WithoutStatus(c.calls),
      result       |-> c.result,
      after        |-> c.after,
      node_modules |-> c.node_modules,
      installed_version |-> c.installed_version,
      latest_version    |-> c.latest_version,
      install           |-> c.install ]

\* C13: a call without an observer reports no status on any path, and its
\* version queries, install attempts, result and set update are those of the
\* same call made with an observer (and the other way round).
C13_OptionalObserver ==
    \A c \in Calls :
        /\ c.id = None =>
              /\ NoStatus(c)
              /\ \A id \in LanguageServerIds : Course(Replay(c, id)) = Course(c)
        /\ c.id # None =>
              /\ Course(Replay(c, None)) = Course(c)
              /\ NoStatus(Replay(c, None))

C13_Witness ==
    \E c \in Calls :
        /\ c.id = None
        /\ UpdateNeeded(c)
        /\ c.install = Ok
        /\ \E id \in LanguageServerIds : ~NoStatus(Replay(c, id))

-----------------------------------------------------------------------------
(* Status reports and the host calls they announce *)

\* the positions of the host call op in a call's trace
OpAt(c, op) == {i \in 1..Len(c.calls) : c.calls[i].op = op}

\* C14: with an observer, CheckingForUpdate is reported before the
\* latest-version query and Downloading before the install; a call whose
\* latest-version query fails has reported CheckingForUpdate and no Downloading,
\* and no Downloading is reported when the installed version is the latest.
C14_StatusPrecedesHostCall ==
    \A c \in Calls :
        c.id # None =>
            /\ \A i \in OpAt(c, "npm_package_latest_version") :
                  \E j \in StatusAt(c, "CheckingForUpdate") : j < i
            /\ \A i \in OpAt(c, "npm_install_package") :
                  \E j \in StatusAt(c, "Downloading") : j < i
            /\ c.latest_version = Err =>
                  /\ StatusAt(c, "CheckingForUpdate") # {}
                  /\ StatusAt(c, "Downloading") = {}
            /\ c.installed_version = c.latest_version =>
                  StatusAt(c, "Downloading") = {}

C14_Witness ==
    \E c \in Calls :
        /\ c.id # None
        /\ c.latest_version = Err
        /\ StatusAt(c, "CheckingForUpdate") # {}
        /\ OpAt(c, "npm_package_latest_version") # {}

-----------------------------------------------------------------------------
(* The launch request as a whole *)

\* the state is the one a language_server_command call left behind
AfterLanguageServerCommand == log # <<>> /\ log[1].pkg = PACKAGE_NAME

\* the packages of the calls made, in order
PackagesEnsured == [i \in 1..Len(log) |-> log[i].pkg]

\* svelte-language-server is ensured first, typescript-svelte-plugin only after
\* it succeeded, and a command is returned only after both succeeded
ProvisionedBeforeCommand ==
    AfterLanguageServerCommand =>
        /\ PackagesEnsured \in {<<PACKAGE_NAME>>, <<PACKAGE_NAME, TS_PLUGIN_PACKAGE_NAME>>}
        /\ Len(log) = 2 => log[1].result = Ok
        /\ Len(log) = 1 => log[1].result # Ok
        /\ (\E c \in Calls : c.result # Ok) => response.kind = "error"
        /\ response.kind = "command" => \A c \in Calls : c.result = Ok

\* C15: a language-server launch ensures svelte-language-server, then
\* typescript-svelte-plugin, and only after both succeeded returns the command
\* the runtime selector builds for the runtime chosen at startup; it returns no
\* command when a provisioning step fails.
C15_LaunchControlFlow ==
    /\ ProvisionedBeforeCommand
    /\ (AfterLanguageServerCommand /\ response.kind = "command") =>
          \E node \in NodeAnswers :
              response = ServerCommand(RuntimeOf(path_env),
                                       EntryScript(PACKAGE_NAME, "bin/server.js"), node)

-----------------------------------------------------------------------------
(* The host's default runtime path *)

\* C16: the host's default runtime path is asked for anew by every call that
\* builds a command from it, and the command runs the path answered in that very
\* call; when the host has no answer the call returns that error and no command.
C16_HostDefaultResolution ==
    /\ node_asked.asked =>
          IF node_asked.answer = NoPath
          THEN response = ErrorResponse("HostResolutionError")
          ELSE response.kind = "command" /\ response.command = node_asked.answer
    /\ (log # <<>> /\ \A c \in Calls : c.result = Ok) => node_asked.asked
    /\ (response.kind = "error" /\ response.error = "HostResolutionError") =>
          node_asked = Asked(NoPath)

C16_Witness ==
    /\ session[PACKAGE_NAME].calls = 2
    /\ AfterLanguageServerCommand
    /\ node_asked.asked
    /\ response.kind = "command"
    /\ response.command = node_asked.answer

-----------------------------------------------------------------------------
(* What may change the set *)

\* the step is an entry-point call that made install_package_if_needed calls
LaunchStep == requests' # requests /\ log' # <<>>

\* the step is an entry-point call that made none
ConfigurationStep == requests' # requests /\ log' = <<>>

\* C17: the set is changed only by install_package_if_needed, and only by adding
\* the call's own package on an Ok return off the fast path; error returns,
\* command construction, the two configuration entry points and the host leave it
\* as it is, and no name is ever removed.
C17_Frame ==
    [][ /\ installed \subseteq installed'
        /\ installed' # installed => LaunchStep
        /\ ConfigurationStep => installed' = installed
        /\ LaunchStep =>
              /\ log'[1].before = installed
              /\ \A i \in 1..(Len(log') - 1) : log'[i + 1].before = log'[i].after
              /\ installed' = log'[Len(log')].after
              /\ \A i \in 1..Len(log') :
                    LET c == log'[i] IN
                    /\ c.after \in {c.before, c.before \cup {c.pkg}}
                    /\ c.after # c.before => (c.result = Ok /\ ~OnFastPath(c))
                    /\ c.result # Ok => c.after = c.before
      ]_vars

C17_Witness ==
    /\ Cardinality(installed) >= 2
    /\ \E c \in Calls : Added(c) /\ c.before # {}

-----------------------------------------------------------------------------
(* After a dropped install failure *)

\* the call dropped an install failure and kept the stale version
Swallowed(c) == c.install = Err /\ c.result = Ok

\* C18: once an install failure has been dropped for a package, every later call
\* for it that finds an installed version returns Ok after the installed-version
\* query alone: no latest-version query, no install, the update is not tried
\* again in this process lifetime.
C18_NoRetryAfterSwallow ==
    /\ \A p \in Packages :
          /\ session[p].stale_calls = session[p].stale_fast
          /\ session[p].swallowed => p \in installed
    /\ \A c \in Calls :
          (session[c.pkg].swallowed /\ ~Swallowed(c) /\ c.installed_version \in Versions) =>
              /\ c.calls = <<InstalledVersionQuery(c.pkg)>>
              /\ c.result = Ok
              /\ c.node_modules[c.pkg] = c.installed_version

C18_Witness ==
    \E c \in Calls :
        /\ session[c.pkg].swallowed
        /\ session[c.pkg].stale_calls >= 1
        /\ ~Swallowed(c)
        /\ c.installed_version = "1.0.0"
        /\ c.calls = <<InstalledVersionQuery(c.pkg)>>

-----------------------------------------------------------------------------
(* A failed launch request and its retry *)

\* the packages the latest request provisioned / failed on
Provisioned == {c.pkg : c \in {d \in Calls : d.result = Ok}}
Failed == {c.pkg : c \in {d \in Calls : d.result # Ok}}

\* a language_server_command call that provisioned svelte-language-server and
\* then returned an error
FailedAfterProgress ==
    /\ AfterLanguageServerCommand
    /\ response.kind = "error"
    /\ log[1].result = Ok

\* the step is the language_server_command call that follows it
RetryStep ==
    /\ FailedAfterProgress
    /\ requests' # requests
    /\ log' # <<>>
    /\ log'[1].pkg = PACKAGE_NAME

\* a failed request keeps what it provisioned
NoRollback ==
    FailedAfterProgress =>
        /\ Provisioned \subseteq installed
        /\ log[1].before \subseteq installed

FastReturn(c) == c.calls = <<InstalledVersionQuery(c.pkg)>> /\ c.result = Ok

\* C19 as stated: a failed request keeps the names it provisioned, and its retry
\* takes the fast path for them and asks for the latest version only of the
\* package that failed.
C19_RetryFastPath ==
    [][ /\ NoRollback /\ NoRollback'
        /\ RetryStep =>
              \A i \in 1..Len(log') :
                  /\ log'[i].pkg \in Provisioned => FastReturn(log'[i])
                  /\ IssuedLatestQuery(log'[i]) => log'[i].pkg \in Failed
      ]_vars

\* C19 amended: a failed request keeps the names it provisioned, and its retry
\* takes the fast path for each of them that still reports an installed version;
\* it asks for the latest version only of the package that failed or of one that
\* no longer reports an installed version.
C19_RetryFastPathWhileInstalled ==
    [][ /\ NoRollback /\ NoRollback'
        /\ RetryStep =>
              \A i \in 1..Len(log') :
                  /\ (log'[i].pkg \in Provisioned /\ log'[i].installed_version \in Versions)
                        => FastReturn(log'[i])
                  /\ IssuedLatestQuery(log'[i]) =>
                        (log'[i].pkg \in Failed \/ log'[i].installed_version = None)
      ]_vars

C19_Witness ==
    /\ Len(log) = 2
    /\ session[PACKAGE_NAME].calls = 2
    /\ session[TS_PLUGIN_PACKAGE_NAME].calls = 2
    /\ OnFastPath(log[1]) /\ FastReturn(log[1])
    /\ TS_PLUGIN_PACKAGE_NAME \notin log[2].before
    /\ IssuedLatestQuery(log[2])

====
